---- MODULE Spec2Model ----
(***************************************************************************)
(* Incremental ingestion and curated merge of                              *)
(* apps/api/lib/container/scripts/ingest_job.py (IngestJob), with the      *)
(* R2FS object store of r2_storage.py, the SODA source of soda_client.py   *)
(* and the contractor extractor of contractor/index.py.                    *)
(*                                                                         *)
(* Time is the wall clock in whole hours.  A source row is identified by   *)
(* id; every change of it stamps :updated_at with the clock, and the stamp *)
(* also stands for the content of that version (v).  A table row carries   *)
(* pk (the cell of the configured primary key column), ts (the cell of the *)
(* :updated_at column) and v.                                              *)
(***************************************************************************)
EXTENDS Integers, Sequences, FiniteSets, TLC

\* ---------------------------------------------------------------- bounds
MaxClock == 2
MaxRows == 2
MaxRuns == 2
MaxTargets == 2
\* The fetch results of MergeSpec: at most MaxBatch rows, stamps and
\* contents 1..MaxStamp and 1..MaxContent.
MaxBatch == 2
MaxStamp == 2
MaxContent == 2
\* The rows of the source that PagedSpec starts with: at most MaxPaged.
MaxPaged == 4

\* ----------------------------------------------------- program constants
\* ingest_job.py:64 sets limit = 2000; the page size is scaled to the model.
limit == 2
SAFETY_LAG_HOURS == 2

DATASET_CONFIG == {"contractors"}
DatasetKeys == {"contractors", "permits"}
Modes == {"auto", "bootstrap", "incremental"}

\* ---------------------------------------------------------------- cells
\* A key that is missing from a JSON object, a column that is missing from
\* a DataFrame.
Absent == "absent"
\* The empty string that fillna("") puts into a missing cell.
EMPTY == ""
\* NaN: the cell pandas.concat puts where a frame lacks a column.
NULL == "NaN"
PkVals == {"k1", "k2"}
NoTs == 0 - 1

\* The primary key field of source row id: even rows carry one, odd rows
\* lack the field (SODA leaves null fields out of the JSON object).
SrcPk(id) == IF id % 2 = 0 THEN (IF id = 2 THEN "k1" ELSE "k2") ELSE Absent

VARIABLES
    clock,        \* wall clock, hours
    sysFields,    \* whether the source returns the :updated_at system field
    source,       \* source rows: sequence of [id, upd], in insertion order
    lastChange,   \* number of the run during or after which the source last changed
    wmState,      \* curated/{ds}/_state.json: [exists, watermark, last_run_id, iso]
    curated,      \* curated/{ds}/parquet/data.parquet: [exists, rows, complete]
    raw,          \* raw/{ds}/{run}/{tag}.json: set of [ds, run, tag, rows]
    meta,         \* raw/{ds}/{run}/meta.json: set of [ds, run, row_count, extracted_at, is_bootstrap]
    nRuns,        \* number of invocations started so far; the run id of the current one
    pc,           \* position of the running process
    mode,         \* self.mode
    targets,      \* self.target_datasets
    idx,          \* position of the for loop of run() in targets
    loc,          \* locals of process_dataset and fetch_socrata_pages
    hist          \* what earlier steps saw, for the statements below

vars == <<clock, sysFields, source, lastChange, wmState, curated, raw, meta,
          nRuns, pc, mode, targets, idx, loc, hist>>

storeVars == <<wmState, curated, raw, meta>>
envVars == <<clock, sysFields, source, lastChange>>
runVars == <<nRuns, mode, targets>>

\* -------------------------------------------------------------- helpers
SeqToSet(s) == {s[i] : i \in 1..Len(s)}

Min(a, b) == IF a < b THEN a ELSE b

SelectIdx(s, keep) ==
    LET F[i \in 0..Len(s)] ==
            IF i = 0 THEN <<>>
            ELSE IF i \in keep THEN Append(F[i - 1], s[i]) ELSE F[i - 1]
    IN F[Len(s)]

\* iso: whether the text of watermark_updated_at is an ISO timestamp, which
\* datetime.fromisoformat parses; watermark is then its instant.
NoState == [exists |-> FALSE, watermark |-> 0, last_run_id |-> 0, iso |-> TRUE]
\* A state file left in the store whose watermark text is not a timestamp.
BadState == [exists |-> TRUE, watermark |-> 0, last_run_id |-> 0, iso |-> FALSE]
NoTable == [exists |-> FALSE, rows |-> <<>>, complete |-> TRUE]
NoLoc == [key |-> "", has_wm |-> FALSE, watermark |-> 0, is_bootstrap |-> FALSE,
          has_since |-> FALSE, fetch_since |-> 0, offset |-> 0, requests |-> 0,
          all_rows |-> <<>>,
          df_delta |-> <<>>, df_existing |-> <<>>, df_final |-> <<>>]
NoHist == [wmRun |-> NoState, wmDs |-> NoState, curRun |-> NoTable,
           curDs |-> NoTable, attempted |-> {}, advanced |-> {},
           failedAt |-> "", prevOk |-> FALSE, began |-> 0, fetched |-> {}]

\* ------------------------------------------------------------ the source
\* The JSON object the source returns for a source row.
JsonRow(r) == [id |-> r.id, pk |-> SrcPk(r.id),
               ts |-> IF sysFields THEN r.upd ELSE NoTs, v |-> r.upd]

\* Mutant: no $order, the rows come in insertion order.
OrderByNothing(rows) == rows

\* $order=:updated_at: ascending by :updated_at, rows with equal stamps in
\* insertion order.
OrderByUpdated(rows) ==
    LET n == Len(rows)
        Rank(i) == Cardinality({j \in 1..n :
                       \/ rows[j].upd < rows[i].upd
                       \/ rows[j].upd = rows[i].upd /\ j < i}) + 1
    IN [r \in 1..n |-> rows[CHOOSE i \in 1..n : Rank(i) = r]]

\* $where=:updated_at > '{since}', when a since is given.
Matching(has_since, since) ==
    SelectIdx(source, {i \in 1..Len(source) : has_since => source[i].upd > since})

\* SodaClient.get_json with $limit, $offset, $order and the optional $where.
GetJson(has_since, since, offset) ==
    LET all == OrderByUpdated(Matching(has_since, since))
        page == SubSeq(all, offset + 1, Min(offset + limit, Len(all)))
    IN [i \in 1..Len(page) |-> JsonRow(page[i])]

\* ------------------------------------------------------ the extractor
HasPk(rows) == \E i \in 1..Len(rows) : rows[i].pk # Absent
HasTs(rows) == \E i \in 1..Len(rows) : rows[i].ts # NoTs

\* contractor.run: pd.read_json(input_path).fillna(""), one output row per
\* input row.  A column exists when some object has the key; fillna puts
\* the empty string where an object lacks it.
Normalize(raw_rows) ==
    [i \in 1..Len(raw_rows) |->
        [raw_rows[i] EXCEPT !.pk = IF raw_rows[i].pk # Absent THEN raw_rows[i].pk
                                   ELSE IF HasPk(raw_rows) THEN EMPTY ELSE Absent]]

\* ---------------------------------------------------------- the merge
\* pd.read_parquet of every listed part; a part that cannot be read is
\* logged and left out.
\* Mutant: the stored table is loaded in every mode.
ReadExistingAlways(table, is_bootstrap) ==
    IF table.exists /\ table.complete THEN table.rows ELSE <<>>

ReadExisting(table, is_bootstrap) ==
    IF ~is_bootstrap /\ table.exists /\ table.complete THEN table.rows ELSE <<>>

\* pd.concat([df_existing, df_delta], ignore_index=True): the columns are
\* the union, a cell of a column its frame lacks is NaN.
Concat(df_existing, df_delta) ==
    IF df_existing = <<>> THEN df_delta
    ELSE LET all == df_existing \o df_delta
         IN [i \in 1..Len(all) |->
                [all[i] EXCEPT !.pk = IF all[i].pk = Absent /\ HasPk(all)
                                      THEN NULL ELSE all[i].pk]]

\* Mutant: the duplicates are not dropped.
DropDuplicatesNone(rows) == rows

\* Mutant: keep='first'.
DropDuplicatesFirst(rows) ==
    SelectIdx(rows, {i \in 1..Len(rows) :
                       ~\E j \in 1..(i - 1) : rows[j].pk = rows[i].pk})

\* drop_duplicates(subset=[pk], keep='last'): NaN cells count as equal.
DropDuplicates(rows) ==
    SelectIdx(rows, {i \in 1..Len(rows) :
                       ~\E j \in (i + 1)..Len(rows) : rows[j].pk = rows[i].pk})

\* sort_values(by=":updated_at") with the default kind='quicksort', which
\* is not stable: every ascending order of the rows is a possible result.
RECURSIVE SortOrdersOf(_, _)
SortOrdersOf(rows, S) ==
    IF S = {} THEN {<<>>}
    ELSE UNION {{<<rows[i]>> \o t : t \in SortOrdersOf(rows, S \ {i})} :
                    i \in {i \in S : \A j \in S : rows[i].ts <= rows[j].ts}}

\* Mutant: ascending=False.
SortValuesDescending(rows) ==
    {[i \in 1..Len(t) |-> t[Len(t) + 1 - i]] : t \in SortOrdersOf(rows, 1..Len(rows))}

SortValues(rows) == SortOrdersOf(rows, 1..Len(rows))

\* Lines 187-195: the possible df_final after the dedupe.
Dedupe(df_final) ==
    IF HasPk(df_final)
    THEN IF HasTs(df_final)
         THEN {DropDuplicates(s) : s \in SortValues(df_final)}
         ELSE {DropDuplicates(df_final)}
    ELSE {df_final}

\* ----------------------------------------------------- mode and lag
\* Lines 92-99.
IsBootstrap(m, has_wm) == m = "bootstrap" \/ (m = "auto" /\ ~has_wm)

\* Lines 101-111: the since bound, when one is set.  When the watermark
\* text does not parse, the except clause logs a warning and fetch_since
\* stays None.
HasSince(is_bootstrap, has_wm, iso) == ~is_bootstrap /\ has_wm /\ iso

\* Mutant: the watermark itself is the bound.
FetchSinceNoLag(watermark) == watermark

\* Lines 106-108: fromisoformat, minus the lag, isoformat; the same
\* instant two hours earlier.
FetchSince(watermark) == watermark - SAFETY_LAG_HOURS

\* ------------------------------------------------------------ the store
\* R2FS.write_text / write_json of a raw key: the key's value is replaced.
PutRaw(store, ds, run, tag, rows) ==
    {r \in store : ~(r.ds = ds /\ r.run = run /\ r.tag = tag)}
        \cup {[ds |-> ds, run |-> run, tag |-> tag, rows |-> rows]}

PutMeta(store, ds, run, m) ==
    {r \in store : ~(r.ds = ds /\ r.run = run)}
        \cup {[ds |-> ds, run |-> run, row_count |-> m.row_count,
                extracted_at |-> m.extracted_at, is_bootstrap |-> m.is_bootstrap]}

\* Mutant: every snapshot is stored as delta.
RawTagAlwaysDelta(is_bootstrap) == "delta"

RawTag(is_bootstrap) == IF is_bootstrap THEN "full" ELSE "delta"

\* ---------------------------------------------------------------- Init
\* --datasets: lists of MaxTargets keys, known or not, the same key
\* possibly twice.
TargetLists == {t \in [1..MaxTargets -> DatasetKeys] : t[MaxTargets] = "contractors"}

Init ==
    /\ clock = 0
    /\ sysFields \in BOOLEAN
    /\ source = <<>>
    /\ lastChange = 0
    /\ wmState = [ds \in DATASET_CONFIG |-> NoState]
    /\ curated = [ds \in DATASET_CONFIG |-> NoTable]
    /\ raw = {}
    /\ meta = {}
    /\ nRuns = 0
    /\ pc = "idle"
    /\ mode = "auto"
    /\ targets = <<>>
    /\ idx = 0
    /\ loc = NoLoc
    /\ hist = NoHist

\* The store holds a state file that this program did not write and
\* whose watermark text is not a timestamp.
InitMalformed ==
    /\ clock = 0
    /\ sysFields \in BOOLEAN
    /\ source = <<>>
    /\ lastChange = 0
    /\ wmState = [ds \in DATASET_CONFIG |-> BadState]
    /\ curated = [ds \in DATASET_CONFIG |-> NoTable]
    /\ raw = {}
    /\ meta = {}
    /\ nRuns = 0
    /\ pc = "idle"
    /\ mode = "auto"
    /\ targets = <<>>
    /\ idx = 0
    /\ loc = NoLoc
    /\ hist = NoHist

\* ------------------------------------------------------ the environment
\* Between invocations, while a further invocation can still follow.
Between == pc \in {"idle", "done", "aborted"} /\ nRuns < MaxRuns

\* The clock advances between invocations and while pages are fetched.
Tick ==
    /\ Between \/ pc = "fetch"
    /\ clock < MaxClock
    /\ clock' = clock + 1
    /\ UNCHANGED <<sysFields, source, lastChange, storeVars, runVars, pc, idx, loc, hist>>

\* The source gets a new row, or a new version of a row, between
\* invocations.
SourceInsert ==
    /\ Between
    /\ Len(source) < MaxRows
    /\ source' = Append(source, [id |-> Len(source) + 1, upd |-> clock])
    /\ lastChange' = nRuns
    /\ UNCHANGED <<clock, sysFields, storeVars, runVars, pc, idx, loc, hist>>

SourceUpdate ==
    /\ Between
    /\ \E i \in 1..Len(source) :
          /\ source[i].upd < clock
          /\ source' = [source EXCEPT ![i] = [id |-> source[i].id, upd |-> clock]]
    /\ lastChange' = nRuns
    /\ UNCHANGED <<clock, sysFields, storeVars, runVars, pc, idx, loc, hist>>

\* The environment while a run archives and merges what it fetched: the
\* steps are taken when the fetch has ended and the state of the dataset
\* is not yet written.
InRun == pc = "state"

TickInRun ==
    /\ InRun
    /\ clock < MaxClock
    /\ clock' = clock + 1
    /\ UNCHANGED <<sysFields, source, lastChange, storeVars, runVars, pc, idx, loc, hist>>

SourceInsertInRun ==
    /\ InRun
    /\ Len(source) < MaxRows
    /\ source' = Append(source, [id |-> Len(source) + 1, upd |-> clock])
    /\ lastChange' = nRuns
    /\ UNCHANGED <<clock, sysFields, storeVars, runVars, pc, idx, loc, hist>>

SourceUpdateInRun ==
    /\ InRun
    /\ \E i \in 1..Len(source) :
          /\ source[i].upd < clock
          /\ source' = [source EXCEPT ![i] = [id |-> source[i].id, upd |-> clock]]
    /\ lastChange' = nRuns
    /\ UNCHANGED <<clock, sysFields, storeVars, runVars, pc, idx, loc, hist>>

\* ------------------------------------------------------------- the job
\* __main__ and IngestJob.__init__: a new invocation with a fresh run id.
StartRunWith(lists) ==
    /\ pc \in {"idle", "done", "aborted"}
    /\ nRuns < MaxRuns
    /\ nRuns' = nRuns + 1
    /\ mode' \in Modes
    /\ targets' \in lists
    /\ idx' = 1
    /\ pc' = "loop"
    /\ loc' = NoLoc
    /\ hist' = [NoHist EXCEPT
                   !.wmRun = wmState["contractors"],
                   !.curRun = curated["contractors"],
                   !.prevOk = pc = "done" /\ mode = "incremental"
                              /\ hist.advanced # {},
                   !.fetched = hist.fetched]
    /\ UNCHANGED <<envVars, storeVars>>

StartRun == StartRunWith(TargetLists)

\* run(), lines 260-269, and process_dataset, lines 87-111: the next
\* target; an unknown key is passed over; for a known one the state is
\* read, the mode decided and the since bound computed.
NextDataset ==
    /\ pc = "loop"
    /\ idx <= Len(targets)
    /\ LET ds == targets[idx] IN
       IF ds \notin DATASET_CONFIG
       THEN /\ idx' = idx + 1
            /\ UNCHANGED <<pc, loc, hist>>
       ELSE LET has_wm == wmState[ds].exists
                boot == IsBootstrap(mode, has_wm)
                since == HasSince(boot, has_wm, wmState[ds].iso)
            IN /\ loc' = [NoLoc EXCEPT
                             !.key = ds,
                             !.has_wm = has_wm,
                             !.watermark = wmState[ds].watermark,
                             !.is_bootstrap = boot,
                             !.has_since = since,
                             !.fetch_since = IF since
                                             THEN FetchSince(wmState[ds].watermark)
                                             ELSE 0]
               /\ hist' = [hist EXCEPT !.wmDs = wmState[ds],
                                        !.curDs = curated[ds],
                                        !.attempted = @ \cup {idx},
                                        !.began = clock]
               /\ pc' = "fetch"
               /\ UNCHANGED idx
    /\ UNCHANGED <<envVars, storeVars, runVars>>

\* Mutant: a short page does not end the loop.
LastPageNever(rows) == FALSE

\* Lines 79-80: a page shorter than the page size is the last one.
LastPage(rows) == Len(rows) < limit

\* fetch_socrata_pages, lines 72-81: one pass of the while loop.  requests
\* counts the calls of get_json.
FetchPage ==
    /\ pc = "fetch"
    /\ \E rows \in {GetJson(loc.has_since, loc.fetch_since, loc.offset)} :
       /\ IF rows = <<>>
          THEN /\ pc' = "raw"
               /\ loc' = [loc EXCEPT !.requests = @ + 1]
          ELSE IF LastPage(rows)
          THEN /\ pc' = "raw"
               /\ loc' = [loc EXCEPT !.all_rows = @ \o rows, !.requests = @ + 1]
          ELSE /\ pc' = "fetch"
               /\ loc' = [loc EXCEPT !.all_rows = @ \o rows, !.offset = @ + limit,
                                     !.requests = @ + 1]
       /\ hist' = [hist EXCEPT !.fetched =
                      @ \cup {<<rows[i].id, rows[i].v>> : i \in 1..Len(rows)}]
    /\ UNCHANGED <<envVars, storeVars, runVars, idx>>

\* The JSON rows a source may answer with: any objects, with or without
\* the primary key field, all with the system field or all without.
JsonRows == [id : {0}, pk : PkVals \cup {Absent},
             ts : IF sysFields THEN 1..MaxStamp ELSE {NoTs}, v : 1..MaxContent]
Batches == UNION {[1..n -> JsonRows] : n \in 0..MaxBatch}

\* fetch_socrata_pages as a whole, against a source that answers with any
\* rows.
FetchAny ==
    /\ pc = "fetch"
    /\ \E rows \in Batches : loc' = [loc EXCEPT !.all_rows = rows]
    /\ pc' = "raw"
    /\ UNCHANGED <<envVars, storeVars, runVars, idx, hist>>

\* Mutant: the raw snapshot is not written.
StoreRawSkipped ==
    /\ pc = "raw"
    /\ pc' = "meta"
    /\ UNCHANGED <<envVars, storeVars, runVars, idx, loc, hist>>

\* Lines 117-122: the local copy and the raw snapshot.
StoreRaw ==
    /\ pc = "raw"
    /\ raw' = PutRaw(raw, loc.key, nRuns, RawTag(loc.is_bootstrap), loc.all_rows)
    /\ pc' = "meta"
    /\ UNCHANGED <<envVars, wmState, curated, meta, runVars, idx, loc, hist>>

\* Lines 125-130.
StoreMeta ==
    /\ pc = "meta"
    /\ meta' = PutMeta(meta, loc.key, nRuns,
                        [row_count |-> Len(loc.all_rows), extracted_at |-> clock,
                         is_bootstrap |-> loc.is_bootstrap])
    /\ pc' = "normalize"
    /\ UNCHANGED <<envVars, wmState, curated, raw, runVars, idx, loc, hist>>

\* Mutant: the empty check is lost and an empty delta goes on to the merge.
ReturnsOnDeltaNever(df_delta) == FALSE

\* Lines 143-145: whether process_dataset returns on this delta.
ReturnsOnDelta(df_delta) == df_delta = <<>>

\* Lines 133-145: the extractor, and the return on an empty delta.
NormalizeStep ==
    /\ pc = "normalize"
    /\ LET df_delta == Normalize(loc.all_rows) IN
         /\ loc' = [loc EXCEPT !.df_delta = df_delta]
         /\ pc' = IF ReturnsOnDelta(df_delta) THEN "state" ELSE "merge"
    /\ UNCHANGED <<envVars, storeVars, runVars, idx, hist>>

\* Lines 156-195: the existing parts are listed and read, the delta is
\* appended and the result deduplicated.
MergeStep ==
    /\ pc = "merge"
    /\ LET df_existing == ReadExisting(curated[loc.key], loc.is_bootstrap) IN
       \E df_final \in Dedupe(Concat(df_existing, loc.df_delta)) :
          loc' = [loc EXCEPT !.df_existing = df_existing, !.df_final = df_final]
    /\ pc' = "write"
    /\ UNCHANGED <<envVars, storeVars, runVars, idx, hist>>

\* Lines 205-208: df_final.to_parquet(target) opens the curated file
\* itself for writing, which truncates it.
OpenParquet ==
    /\ pc = "write"
    /\ curated' = [curated EXCEPT ![loc.key] =
                      [exists |-> TRUE, rows |-> <<>>, complete |-> FALSE]]
    /\ pc' = "writing"
    /\ UNCHANGED <<envVars, wmState, raw, meta, runVars, idx, loc, hist>>

\* Line 208: the row groups and the footer are written and the file closed.
CloseParquet ==
    /\ pc = "writing"
    /\ curated' = [curated EXCEPT ![loc.key] =
                      [exists |-> TRUE, rows |-> loc.df_final, complete |-> TRUE]]
    /\ pc' = "state"
    /\ UNCHANGED <<envVars, wmState, raw, meta, runVars, idx, loc, hist>>

\* Mutant: the since bound of the fetch is stored as the new watermark.
WriteStateSince ==
    /\ pc = "state"
    /\ wmState' = [wmState EXCEPT ![loc.key] =
                      [exists |-> TRUE,
                       watermark |-> IF loc.has_since THEN loc.fetch_since ELSE clock,
                       last_run_id |-> nRuns, iso |-> TRUE]]
    /\ hist' = [hist EXCEPT !.advanced = @ \cup {idx}]
    /\ idx' = idx + 1
    /\ loc' = NoLoc
    /\ pc' = "loop"
    /\ UNCHANGED <<envVars, curated, raw, meta, runVars>>

\* Mutant: the new state is written for every dataset of the store.
WriteStateAll ==
    /\ pc = "state"
    /\ wmState' = [ds \in DOMAIN wmState |->
                      [exists |-> TRUE, watermark |-> clock, last_run_id |-> nRuns,
                       iso |-> TRUE]]
    /\ hist' = [hist EXCEPT !.advanced = @ \cup {idx}]
    /\ idx' = idx + 1
    /\ loc' = NoLoc
    /\ pc' = "loop"
    /\ UNCHANGED <<envVars, curated, raw, meta, runVars>>

\* run(), lines 271-276: the new state, stamped with the clock now.
WriteState ==
    /\ pc = "state"
    /\ wmState' = [wmState EXCEPT ![loc.key] =
                      [exists |-> TRUE, watermark |-> clock, last_run_id |-> nRuns,
                       iso |-> TRUE]]
    /\ hist' = [hist EXCEPT !.advanced = @ \cup {idx}]
    /\ idx' = idx + 1
    /\ loc' = NoLoc
    /\ pc' = "loop"
    /\ UNCHANGED <<envVars, curated, raw, meta, runVars>>

\* run(), line 278: calculate_insights once the loop is over.
Insights ==
    /\ pc = "loop"
    /\ idx > Len(targets)
    /\ pc' = "done"
    /\ UNCHANGED <<envVars, storeVars, runVars, idx, loc, hist>>

\* An exception in a step of process_dataset or of run(): a page request
\* that raises (raise_for_status), a write that fails, the extractor
\* raising.  run() has no handler, so the exception leaves run() and the
\* process ends; a crash of the process at that point leaves the same store.
RaisePcs == {"fetch", "raw", "meta", "normalize", "merge", "write", "writing", "state"}

\* Mutant: the state is written in a finally clause, also on a failure.
RaiseAndAdvance ==
    /\ pc \in RaisePcs
    /\ pc' = "aborted"
    /\ hist' = [hist EXCEPT !.failedAt = pc]
    /\ wmState' = [wmState EXCEPT ![loc.key] =
                      [exists |-> TRUE, watermark |-> clock, last_run_id |-> nRuns,
                       iso |-> TRUE]]
    /\ UNCHANGED <<envVars, curated, raw, meta, runVars, idx, loc>>

\* Mutant: a failure removes what the run has archived of the dataset.
RaiseAndCleanup ==
    /\ pc \in RaisePcs
    /\ pc' = "aborted"
    /\ hist' = [hist EXCEPT !.failedAt = pc]
    /\ raw' = {r \in raw : ~(r.ds = loc.key /\ r.run = nRuns)}
    /\ UNCHANGED <<envVars, wmState, curated, meta, runVars, idx, loc>>

Raise ==
    /\ pc \in RaisePcs
    /\ pc' = "aborted"
    /\ hist' = [hist EXCEPT !.failedAt = pc]
    /\ UNCHANGED <<envVars, storeVars, runVars, idx, loc>>

Next ==
    \/ Tick
    \/ SourceInsert
    \/ SourceUpdate
    \/ StartRun
    \/ NextDataset
    \/ FetchPage
    \/ StoreRaw
    \/ StoreMeta
    \/ NormalizeStep
    \/ MergeStep
    \/ OpenParquet
    \/ CloseParquet
    \/ WriteState
    \/ Insights
    \/ Raise

Spec == Init /\ [][Next]_vars

\* The job started on a store with a malformed watermark.
MalformedSpec == InitMalformed /\ [][Next]_vars

\* The merge over any fetch results: single-dataset runs whose fetches
\* return arbitrary rows, every step succeeding.
StartRunOne == StartRunWith({<<"contractors">>})

NextMerge ==
    \/ StartRunOne
    \/ NextDataset
    \/ FetchAny
    \/ StoreRaw
    \/ StoreMeta
    \/ NormalizeStep
    \/ MergeStep
    \/ OpenParquet
    \/ CloseParquet
    \/ WriteState
    \/ Insights

MergeSpec == Init /\ [][NextMerge]_vars

\* Runs of one dataset in which every step succeeds, against a source
\* that changes and a clock that advances also while a run is under way.
NextLong ==
    \/ Tick
    \/ SourceInsert
    \/ SourceUpdate
    \/ TickInRun
    \/ SourceInsertInRun
    \/ SourceUpdateInRun
    \/ StartRunOne
    \/ NextDataset
    \/ FetchPage
    \/ StoreRaw
    \/ StoreMeta
    \/ NormalizeStep
    \/ MergeStep
    \/ OpenParquet
    \/ CloseParquet
    \/ WriteState
    \/ Insights

LongRunSpec == Init /\ [][NextLong]_vars

\* Pagination: runs of one dataset against a source that holds up to
\* MaxPaged rows from the start and does not change, and that answers
\* every request; the while loop of fetch_socrata_pages is not suspended
\* for ever.
PagedSources ==
    UNION {{src \in [1..n -> [id : 1..n, upd : 0..1]] :
               \A i \in 1..n : src[i].id = i} : n \in 0..MaxPaged}

InitPaged ==
    /\ clock = 1
    /\ sysFields = FALSE
    /\ source \in PagedSources
    /\ lastChange = 0
    /\ wmState = [ds \in DATASET_CONFIG |-> NoState]
    /\ curated = [ds \in DATASET_CONFIG |-> NoTable]
    /\ raw = {}
    /\ meta = {}
    /\ nRuns = 0
    /\ pc = "idle"
    /\ mode = "auto"
    /\ targets = <<>>
    /\ idx = 0
    /\ loc = NoLoc
    /\ hist = NoHist

NextPaged ==
    \/ Tick
    \/ StartRunOne
    \/ NextDataset
    \/ FetchPage
    \/ StoreRaw
    \/ StoreMeta
    \/ NormalizeStep
    \/ MergeStep
    \/ OpenParquet
    \/ CloseParquet
    \/ WriteState
    \/ Insights

PagedSpec == InitPaged /\ [][NextPaged]_vars /\ WF_vars(FetchPage)

\* Lines 163-169: pd.read_parquet raises on the stored part, the error is
\* logged and the part left out, so that df_existing stays empty.
MergeStepUnreadable ==
    /\ pc = "merge"
    /\ ~loc.is_bootstrap
    /\ curated[loc.key].exists
    /\ \E df_final \in Dedupe(Concat(<<>>, loc.df_delta)) :
          loc' = [loc EXCEPT !.df_existing = <<>>, !.df_final = df_final]
    /\ pc' = "write"
    /\ UNCHANGED <<envVars, storeVars, runVars, idx, hist>>

\* Runs of one dataset in which every step succeeds and in which the read
\* of a stored part can fail.
NextUnreadable ==
    \/ Tick
    \/ SourceInsert
    \/ SourceUpdate
    \/ StartRunOne
    \/ NextDataset
    \/ FetchPage
    \/ StoreRaw
    \/ StoreMeta
    \/ NormalizeStep
    \/ MergeStep
    \/ MergeStepUnreadable
    \/ OpenParquet
    \/ CloseParquet
    \/ WriteState
    \/ Insights

UnreadableSpec == Init /\ [][NextUnreadable]_vars

\* The store also holds the objects of a dataset key other than the
\* configured one: its state file, its curated table and a raw snapshot
\* with its meta.json, under the paths the job derives from the key
\* (lines 86-87, 121, 130, 149, 263).
OtherRow == [id |-> 1, pk |-> "k1", ts |-> 0, v |-> 0]
InitTwo ==
    /\ clock = 0
    /\ sysFields \in BOOLEAN
    /\ source = <<>>
    /\ lastChange = 0
    /\ wmState = [ds \in DatasetKeys |->
                     IF ds \in DATASET_CONFIG THEN NoState
                     ELSE [exists |-> TRUE, watermark |-> 1, last_run_id |-> 0,
                           iso |-> TRUE]]
    /\ curated = [ds \in DatasetKeys |->
                     IF ds \in DATASET_CONFIG THEN NoTable
                     ELSE [exists |-> TRUE, rows |-> <<OtherRow>>, complete |-> TRUE]]
    /\ raw = {[ds |-> ds, run |-> 0, tag |-> "full", rows |-> <<OtherRow>>] :
                 ds \in DatasetKeys \ DATASET_CONFIG}
    /\ meta = {[ds |-> ds, run |-> 0, row_count |-> 1, extracted_at |-> 0,
                 is_bootstrap |-> TRUE] : ds \in DatasetKeys \ DATASET_CONFIG}
    /\ nRuns = 0
    /\ pc = "idle"
    /\ mode = "auto"
    /\ targets = <<>>
    /\ idx = 0
    /\ loc = NoLoc
    /\ hist = NoHist

TwoSpec == InitTwo /\ [][Next]_vars

\* R2FS.write_bytes in its steps, for the write of meta.json (write_json,
\* write_text and write_bytes, r2_storage.py lines 48-59).  The temporary
\* sibling meta.json.tmp is an object of the same directory: a record
\* with a tmp field next to the record of the key.
IsTmp(m) == "tmp" \in DOMAIN m
TmpOf(ds, run, m, complete) ==
    [ds |-> ds, run |-> run, tmp |-> TRUE, complete |-> complete,
     row_count |-> m.row_count, extracted_at |-> m.extracted_at,
     is_bootstrap |-> m.is_bootstrap]
TmpsOf(store, ds, run) == {t \in store : IsTmp(t) /\ t.ds = ds /\ t.run = run}

\* Lines 125-129: the meta object of the current processing.
MetaObj ==
    [row_count |-> Len(loc.all_rows), extracted_at |-> clock,
     is_bootstrap |-> loc.is_bootstrap]

\* Mutant: the data is written to the key itself, which is truncated.
WriteBytesInPlace ==
    /\ pc = "meta"
    /\ meta' = {m \in meta : ~(m.ds = loc.key /\ m.run = nRuns)}
                  \cup {TmpOf(loc.key, nRuns, MetaObj, FALSE)}
    /\ pc' = "meta_tmp"
    /\ UNCHANGED <<envVars, wmState, curated, raw, runVars, idx, loc, hist>>

\* Line 52, tmp.write_bytes opens the sibling: it exists, truncated.
WriteBytesOpenTmp ==
    /\ pc = "meta"
    /\ meta' = (meta \ TmpsOf(meta, loc.key, nRuns))
                  \cup {TmpOf(loc.key, nRuns, MetaObj, FALSE)}
    /\ pc' = "meta_tmp"
    /\ UNCHANGED <<envVars, wmState, curated, raw, runVars, idx, loc, hist>>

\* Line 52, tmp.write_bytes returns: the sibling holds the whole data.
WriteBytesCloseTmp ==
    /\ pc = "meta_tmp"
    /\ meta' = (meta \ TmpsOf(meta, loc.key, nRuns))
                  \cup {TmpOf(loc.key, nRuns, t, TRUE) : t \in TmpsOf(meta, loc.key, nRuns)}
    /\ pc' = "meta_mv"
    /\ UNCHANGED <<envVars, wmState, curated, raw, runVars, idx, loc, hist>>

\* Line 53, tmp.replace(p): the sibling becomes the object of the key.
WriteBytesReplace ==
    /\ pc = "meta_mv"
    /\ \E t \in TmpsOf(meta, loc.key, nRuns) :
          meta' = PutMeta(meta \ {t}, loc.key, nRuns, t)
    /\ pc' = "normalize"
    /\ UNCHANGED <<envVars, wmState, curated, raw, runVars, idx, loc, hist>>

\* An exception or the end of the process inside write_bytes.
RaiseInWriteBytes ==
    /\ pc \in {"meta_tmp", "meta_mv"}
    /\ pc' = "aborted"
    /\ hist' = [hist EXCEPT !.failedAt = pc]
    /\ UNCHANGED <<envVars, storeVars, runVars, idx, loc>>

NextWrite ==
    \/ Tick
    \/ SourceInsert
    \/ SourceUpdate
    \/ StartRun
    \/ NextDataset
    \/ FetchPage
    \/ StoreRaw
    \/ WriteBytesOpenTmp
    \/ WriteBytesCloseTmp
    \/ WriteBytesReplace
    \/ RaiseInWriteBytes
    \/ NormalizeStep
    \/ MergeStep
    \/ OpenParquet
    \/ CloseParquet
    \/ WriteState
    \/ Insights

WriteSpec == Init /\ [][NextWrite]_vars

\* ------------------------------------------------------------ statements
\* The stage the process is in, or was in when it ended on an exception.
Stage == IF pc = "aborted" THEN hist.failedAt ELSE pc
RunEnded == pc \in {"done", "aborted"}

\* C1: failure isolation.  When a run has ended, every known dataset of
\* the target list has been processed (its fetch was started), also the
\* ones listed after a dataset that failed.
C1_FailureIsolation ==
    RunEnded => \A i \in 1..Len(targets) :
                    targets[i] \in DATASET_CONFIG => i \in hist.attempted

\* C2, as stated: when the processing of a dataset has failed, the stored
\* watermark state of that dataset is what it was before the run.
C2_StateAsBeforeRun ==
    pc = "aborted" => wmState[loc.key] = hist.wmRun

\* C2, amended: when the processing of a dataset has failed, the stored
\* watermark state of that dataset is what it was when that processing
\* began; the failed processing never advances it.
C2_StateAsBeforeProcessing ==
    pc = "aborted" => wmState[loc.key] = hist.wmDs

\* A curated write that fails part-way in a later run, with a watermark
\* stored by an earlier one.
C2_Witness ==
    pc = "aborted" /\ hist.failedAt = "writing" /\ hist.wmDs.exists
        /\ hist.wmDs.last_run_id < nRuns

\* C3: atomic curated replace.  At every point of the processing of a
\* dataset that has a curated table, a reader of the curated file sees a
\* complete table: the previous one or the new one.
C3_AtomicReplace ==
    (loc.key # "" /\ hist.curDs.exists /\ hist.curDs.complete)
        => \/ curated[loc.key] = hist.curDs
           \/ curated[loc.key] = [exists |-> TRUE, rows |-> loc.df_final,
                                   complete |-> TRUE]

\* C4: when the curated write fails or the process crashes part-way
\* through it, the previously committed curated table is still stored
\* with the rows it had and the watermark is not advanced.
C4_FailedWriteKeepsTable ==
    (/\ pc = "aborted" /\ hist.failedAt \in {"write", "writing"}
     /\ hist.curDs.exists /\ hist.curDs.complete)
        => /\ curated[loc.key] = hist.curDs
           /\ wmState[loc.key] = hist.wmDs

\* df_final has been computed from df_existing and df_delta.
Merged == pc \in {"write", "writing", "state"}
\* The positions of a table whose primary key cell is k.
WithPk(rows, k) == {i \in 1..Len(rows) : rows[i].pk = k}
NoPk(rows) == {i \in 1..Len(rows) : rows[i].pk \notin PkVals}

\* C5: curated-table uniqueness.  A stored curated table holds at most
\* one row per primary key value.
C5_UniquePk ==
    \A ds \in DATASET_CONFIG : \A k \in PkVals :
        (curated[ds].exists /\ curated[ds].complete)
            => Cardinality(WithPk(curated[ds].rows, k)) <= 1

\* An incremental merge of a delta that shares a key with the stored
\* table has been written.
C5_Witness ==
    /\ pc = "state" /\ ~loc.is_bootstrap /\ nRuns = MaxRuns
    /\ curated[loc.key].rows = loc.df_final
    /\ \E k \in PkVals : WithPk(loc.df_existing, k) # {} /\ WithPk(loc.df_delta, k) # {}

\* C6: last write wins by timestamp.  After a merge of rows that carry
\* the update timestamp, for every primary key of the concatenation of
\* the existing rows and the delta the merged table holds exactly one
\* row, it is a row of the concatenation, and no row of that key in the
\* concatenation has a larger timestamp.
C6_LastWriteWins ==
    (Merged /\ HasTs(loc.df_delta))
        => LET all == loc.df_existing \o loc.df_delta IN
           \A k \in PkVals : WithPk(all, k) # {} =>
               /\ Cardinality(WithPk(loc.df_final, k)) = 1
               /\ \A j \in WithPk(loc.df_final, k) :
                     /\ \E i \in WithPk(all, k) : all[i] = loc.df_final[j]
                     /\ \A i \in WithPk(all, k) : all[i].ts <= loc.df_final[j].ts

\* The existing row of a key is newer than the delta row of that key and
\* is the one kept.
C6_Witness ==
    /\ pc = "state" /\ HasTs(loc.df_delta)
    /\ \E k \in PkVals : \E i \in WithPk(loc.df_existing, k) :
          /\ \E j \in WithPk(loc.df_delta, k) :
                loc.df_existing[i].ts > loc.df_delta[j].ts
          /\ \E j \in WithPk(loc.df_final, k) : loc.df_final[j] = loc.df_existing[i]

\* C7: tie-break without timestamp.  After a merge of rows without the
\* update timestamp, for every primary key that occurs in the stored
\* table and in the delta, the one row of that key in the merged table
\* is the last row of that key in the delta.
C7_DeltaWinsWithoutTs ==
    (Merged /\ ~HasTs(loc.df_delta))
        => \A k \in PkVals :
             (WithPk(hist.curDs.rows, k) # {} /\ WithPk(loc.df_delta, k) # {}) =>
               /\ Cardinality(WithPk(loc.df_final, k)) = 1
               /\ \A j \in WithPk(loc.df_final, k) :
                     \E i \in WithPk(loc.df_delta, k) :
                        /\ loc.df_final[j] = loc.df_delta[i]
                        /\ \A i2 \in WithPk(loc.df_delta, k) : i2 <= i

\* An incremental merge without timestamps in which the delta row of a
\* key differs from the existing row of that key and replaces it.
C7_Witness ==
    /\ pc = "state" /\ ~HasTs(loc.df_delta) /\ ~loc.is_bootstrap
    /\ \E k \in PkVals : \E i \in WithPk(loc.df_existing, k) :
          /\ \E j \in WithPk(loc.df_delta, k) : loc.df_delta[j] # loc.df_existing[i]
          /\ \A j \in WithPk(loc.df_final, k) : loc.df_final[j] # loc.df_existing[i]

\* C8: rows without a primary key are never dropped by the merge.  The
\* merged table holds as many rows without a primary key as the
\* concatenation of the existing rows and the delta.
C8_KeylessRowsKept ==
    Merged => Cardinality(NoPk(loc.df_final))
                  = Cardinality(NoPk(loc.df_existing \o loc.df_delta))

\* The rows of two tables are the same, each as often.
SameRows(a, b) ==
    /\ Len(a) = Len(b)
    /\ \A r \in SeqToSet(a) \cup SeqToSet(b) :
          Cardinality({i \in 1..Len(a) : a[i] = r})
              = Cardinality({i \in 1..Len(b) : b[i] = r})

\* C9: idempotence.  When an incremental run follows a successful
\* incremental run and the source has not changed since before the
\* first of the two began, the curated table after the second run has
\* the rows it had after the first.
C9_Idempotent ==
    (/\ pc = "done" /\ mode = "incremental" /\ hist.prevOk
     /\ hist.advanced # {} /\ lastChange < nRuns - 1)
        => SameRows(curated["contractors"].rows, hist.curRun.rows)

\* C10: an empty delta is a no-op on the curated tier.  With a fetch that
\* returned no row, control never enters the merge or the curated write:
\* process_dataset has returned, the state write is next, and the
\* curated file is the one stored when the processing began.
C10_EmptyDeltaNoOp ==
    (Stage \in {"merge", "write", "writing", "state"} /\ loc.all_rows = <<>>)
        => /\ Stage = "state"
           /\ curated[loc.key] = hist.curDs

\* A bootstrap processing whose fetch returned no row while a curated
\* table with rows is stored: process_dataset has returned and the table
\* is still the stored one.
C10_Witness ==
    /\ pc = "state" /\ loc.all_rows = <<>> /\ loc.is_bootstrap
    /\ hist.curDs.exists /\ hist.curDs.rows # <<>>
    /\ curated[loc.key] = hist.curDs

\* The raw snapshot of the current processing has been archived.
Archived == Stage \in {"meta", "normalize", "merge", "write", "writing", "state"}
\* The snapshot of the current fetch is stored under this run with tag t.
Tagged(t) == \E r \in raw : /\ r.ds = loc.key /\ r.run = nRuns
                            /\ r.tag = t /\ r.rows = loc.all_rows

\* C11: mode selection.  A dataset is fetched without a since filter and
\* archived as full exactly when the run mode is bootstrap, or auto with
\* no watermark stored; with a watermark stored and the run mode
\* incremental or auto it is fetched with a since filter and archived as
\* delta.
C11_ModeSelection ==
    Archived =>
        LET stored == hist.wmDs.exists
            boot == mode = "bootstrap" \/ (mode = "auto" /\ ~stored)
        IN /\ (~loc.has_since /\ Tagged("full")) <=> boot
           /\ (stored /\ mode \in {"incremental", "auto"})
                 => (loc.has_since /\ Tagged("delta"))

\* The source rows a filter on rows updated after t matches.
UpdatedAfter(t) == {source[i].id : i \in {j \in 1..Len(source) : source[j].upd > t}}
FetchedIds == {loc.all_rows[i].id : i \in 1..Len(loc.all_rows)}

\* C12: safety lag.  In incremental mode with a parseable stored
\* watermark W the fetch is filtered, its since bound is W minus 2 hours,
\* and the rows fetched are the source rows updated strictly after that
\* bound.
C12_SafetyLag ==
    (/\ Stage \in {"raw"} \cup {"meta", "normalize", "merge", "write", "writing", "state"}
     /\ pc # "aborted"
     /\ ~loc.is_bootstrap /\ hist.wmDs.exists /\ hist.wmDs.iso)
        => /\ loc.has_since
           /\ loc.fetch_since = hist.wmDs.watermark - 2
           /\ FetchedIds = UpdatedAfter(hist.wmDs.watermark - 2)

\* A filtered fetch has ended: a source row stamped exactly two hours
\* before the watermark was left out, one stamped an hour later came.
C12_Witness ==
    /\ pc = "raw" /\ loc.has_since
    /\ \E i \in 1..Len(source) :
          /\ source[i].upd = hist.wmDs.watermark - 2
          /\ source[i].id \notin FetchedIds
    /\ \E i \in 1..Len(source) :
          /\ source[i].upd = hist.wmDs.watermark - 1
          /\ source[i].id \in FetchedIds

\* C13: malformed watermark.  With a stored watermark that does not parse
\* and the dataset not in bootstrap mode, no unfiltered fetch is archived
\* and merged as if nothing had happened: the processing does not get
\* past the fetch without a since bound.
C13_NoSilentFullFetch ==
    (/\ loc.key # "" /\ pc # "fetch" /\ Stage # "fetch"
     /\ hist.wmDs.exists /\ ~hist.wmDs.iso /\ ~loc.is_bootstrap
     /\ source # <<>>)
        => loc.has_since

\* The raw snapshot and the meta record of the current fetch are stored
\* under this run.
RawStored ==
    /\ \E r \in raw : r.ds = loc.key /\ r.run = nRuns /\ r.rows = loc.all_rows
    /\ \E m \in meta : m.ds = loc.key /\ m.run = nRuns
\* The curated step of the current processing is over: the merged table is
\* stored whole, or the delta was empty and the table is as it was.
CuratedDone ==
    IF loc.df_delta = <<>> THEN curated[loc.key] = hist.curDs
    ELSE curated[loc.key] = [exists |-> TRUE, rows |-> loc.df_final, complete |-> TRUE]

\* C14: the watermark advance happens last.  A state file is written only
\* by a step taken when the raw snapshot and its meta record are stored
\* and the curated step is over; and whenever the state of a run is
\* stored, a raw snapshot and a meta record of that run are stored.
C14_AdvanceLast ==
    /\ [][wmState' # wmState => (pc = "state" /\ RawStored /\ CuratedDone)]_vars
    /\ [](\A ds \in DATASET_CONFIG : wmState[ds].exists =>
              /\ \E r \in raw : r.ds = ds /\ r.run = wmState[ds].last_run_id
              /\ \E m \in meta : m.ds = ds /\ m.run = wmState[ds].last_run_id)

\* The state of the current run has just been written after a merge that
\* stored rows.
C14_Witness ==
    /\ pc = "loop" /\ hist.advanced # {}
    /\ wmState["contractors"].last_run_id = nRuns
    /\ curated["contractors"].complete /\ curated["contractors"].rows # <<>>

\* C15: the watermark value.  After a dataset has been processed, its
\* stored watermark is the clock at which that processing began and its
\* last_run_id is the id of the run.
C15_WatermarkIsStart ==
    (pc \in {"loop", "done"} /\ hist.advanced # {})
        => /\ wmState["contractors"].watermark = hist.began
           /\ wmState["contractors"].last_run_id = nRuns

\* C16: no record is skipped.  Between runs, every version of a source row
\* that no fetch has returned yet is inside the window of the next
\* incremental fetch: it is stamped after the stored watermark minus the
\* safety lag.
C16_NoRecordSkipped ==
    pc \in {"idle", "done"} =>
        \A i \in 1..Len(source) :
            (<<source[i].id, source[i].upd>> \notin hist.fetched
               /\ wmState["contractors"].exists)
                => source[i].upd > wmState["contractors"].watermark - 2

\* C17: watermark monotonicity.  No step lowers the stored watermark of a
\* dataset.
C17_Monotonic ==
    [][\A ds \in DATASET_CONFIG :
          wmState[ds].exists => /\ wmState'[ds].exists
                                /\ wmState'[ds].watermark >= wmState[ds].watermark]_vars

\* A later run has stored a watermark above the one it read.
C17_Witness ==
    /\ pc = "loop" /\ hist.advanced # {}
    /\ hist.wmDs.exists /\ hist.wmDs.last_run_id < nRuns
    /\ wmState["contractors"].watermark > hist.wmDs.watermark

\* The source rows the filter of the current fetch matches.
MatchingIds ==
    {source[i].id : i \in {j \in 1..Len(source) :
                              loc.has_since => source[j].upd > loc.fetch_since}}
\* The fetch of the current processing has ended.
Fetched == loc.key # "" /\ pc # "fetch"

\* C18: pagination termination.  The loop of fetch_socrata_pages ends; it
\* goes on after a page only when the page was full, it ends on a page
\* that is empty or short, and with n matching rows it has made
\* n \div limit + 1 requests: when n is a multiple of the page size, the
\* full pages and one more request, which returned the empty page.
C18_PaginationTerminates ==
    /\ (pc = "fetch") ~> (pc # "fetch")
    /\ [][(pc = "fetch" /\ loc' # loc) =>
             /\ loc'.requests = loc.requests + 1
             /\ loc'.requests <= Cardinality(MatchingIds) \div limit + 1
             /\ IF pc' = "fetch"
                THEN Len(loc'.all_rows) = Len(loc.all_rows) + limit
                ELSE Len(loc'.all_rows) < Len(loc.all_rows) + limit]_vars
    /\ [](Fetched => loc.requests = Cardinality(MatchingIds) \div limit + 1)

\* A fetch of two full pages has ended on a third request, which
\* returned the empty page.
C18_Witness ==
    /\ pc = "raw" /\ Len(loc.all_rows) = 2 * limit /\ loc.requests = 3
    /\ Cardinality(MatchingIds) = 2 * limit

\* C19: pagination completeness.  The fetch returns every matching source
\* row once and no other row, in ascending order of the update stamp.
C19_PaginationComplete ==
    Fetched =>
        /\ {loc.all_rows[i].id : i \in 1..Len(loc.all_rows)} = MatchingIds
        /\ Len(loc.all_rows) = Cardinality(MatchingIds)
        /\ \A i \in 1..Len(loc.all_rows) : \A j \in i..Len(loc.all_rows) :
              loc.all_rows[i].v <= loc.all_rows[j].v
        /\ \A i \in 1..Len(loc.all_rows) : \E j \in 1..Len(source) :
              /\ source[j].id = loc.all_rows[i].id
              /\ source[j].upd = loc.all_rows[i].v

\* A filtered fetch over more than one page: a full page and a short
\* one, some source row left out by the filter, stamps not all equal.
C19_Witness ==
    /\ pc = "raw" /\ loc.has_since /\ loc.requests = 2
    /\ Len(loc.all_rows) = limit + 1
    /\ Len(source) > Len(loc.all_rows)

\* C20: raw snapshots are write-once.  No step removes or replaces a
\* stored raw snapshot or a stored meta record.
C20_RawWriteOnce ==
    [][raw \subseteq raw' /\ meta \subseteq meta']_vars

\* The meta record of the current processing has been written.
MetaStored == Stage \in {"normalize", "merge", "write", "writing", "state"}

\* C21: raw archive content and tagging.  Once a dataset is archived, the
\* snapshot stored under its key, the run and the tag of its mode (full
\* for bootstrap, delta otherwise) holds the rows the fetch returned, and
\* the meta record of the run has the number of fetched rows and the
\* bootstrap flag of the mode.
C21_RawContentAndTag ==
    /\ Archived =>
          \A r \in raw :
              (/\ r.ds = loc.key /\ r.run = nRuns
               /\ r.tag = (IF loc.is_bootstrap THEN "full" ELSE "delta"))
                  => r.rows = loc.all_rows
    /\ Archived => Tagged(IF loc.is_bootstrap THEN "full" ELSE "delta")
    /\ MetaStored =>
          /\ \E m \in meta : m.ds = loc.key /\ m.run = nRuns
          /\ \A m \in meta : (m.ds = loc.key /\ m.run = nRuns) =>
                /\ m.row_count = Len(loc.all_rows)
                /\ m.is_bootstrap = loc.is_bootstrap

\* A bootstrap and an incremental processing that fetched rows have been
\* archived, the second under a later run.
C21_Witness ==
    /\ pc = "normalize" /\ ~loc.is_bootstrap /\ loc.all_rows # <<>>
    /\ \E r \in raw : r.tag = "full" /\ r.run < nRuns /\ r.rows # <<>>

\* C22: the raw snapshot is independent of the later stages.  From the
\* archive step on, also when the processing has failed or has returned on
\* an empty delta, the snapshot with the fetched rows is stored; no step
\* of normalization, merge or curated write changes a raw snapshot or a
\* meta record.
C22_RawIndependent ==
    /\ [](Archived => \E r \in raw : /\ r.ds = loc.key /\ r.run = nRuns
                                     /\ r.rows = loc.all_rows)
    /\ [][(pc \in {"normalize", "merge", "write", "writing"})
              => (raw' = raw /\ meta' = meta)]_vars

\* The merge of a dataset that fetched rows has failed and its snapshot
\* is stored.
C22_Witness ==
    /\ pc = "aborted" /\ hist.failedAt \in {"normalize", "merge"}
    /\ loc.all_rows # <<>>
    /\ \E r \in raw : r.ds = loc.key /\ r.run = nRuns /\ r.rows = loc.all_rows

\* C23: run outcome summary.  When a run has ended, every entry of the
\* target list, known or not, is in one terminal state: its watermark was
\* advanced, or its processing failed.
C23_EveryTargetTerminal ==
    RunEnded =>
        \A i \in 1..Len(targets) :
            (i \in hist.advanced) # (pc = "aborted" /\ idx = i)

\* C26: the tag agrees with the fetch.  The snapshot of a fetch without a
\* since filter is stored as full, the snapshot of a filtered fetch as
\* delta.
C26_TagAgreesWithFetch ==
    Archived => /\ ~loc.has_since => Tagged("full")
                /\ loc.has_since => Tagged("delta")

\* What a reader of the meta key of the current processing sees.
KeyValue == {m \in meta : ~IsTmp(m) /\ m.ds = loc.key /\ m.run = nRuns}

\* C24: writes of the object store are atomic.  In every step of
\* write_bytes, and in a failure inside it, the object of the key stays
\* as it was, except in the rename, after which it is the whole new
\* data; a failure before the rename leaves the old value.
C24_AtomicWrite ==
    [][(pc \in {"meta", "meta_tmp", "meta_mv"}) =>
          \/ KeyValue' = KeyValue
          \/ /\ pc = "meta_mv" /\ pc' = "normalize"
             /\ KeyValue' = {[ds |-> loc.key, run |-> nRuns,
                               row_count |-> Len(loc.all_rows),
                               extracted_at |-> clock,
                               is_bootstrap |-> loc.is_bootstrap]}]_vars

\* write_bytes failed before the rename, over a key that holds an older
\* value which differs from the data being written.
C24_Witness ==
    /\ pc = "aborted" /\ hist.failedAt \in {"meta_tmp", "meta_mv"}
    /\ \E old \in KeyValue : old.extracted_at # clock
    /\ TmpsOf(meta, loc.key, nRuns) # {}

\* C25: the incremental merge loses no existing key.  After an incremental
\* processing with a non-empty delta, every primary-key value of the
\* curated table as it was before the processing is in the table.
C25_NoKeyLost ==
    (pc = "state" /\ ~loc.is_bootstrap /\ loc.df_delta # <<>>) =>
        \A k \in PkVals :
            WithPk(hist.curDs.rows, k) # {} => WithPk(curated[loc.key].rows, k) # {}

\* C27: dataset independence.  No step of the processing of a dataset,
\* successful or failing, changes the watermark state, the curated table,
\* a raw snapshot or a meta record of another dataset key.
C27_DatasetIndependence ==
    [][\A B \in DatasetKeys :
          B # loc.key =>
              /\ wmState'[B] = wmState[B]
              /\ curated'[B] = curated[B]
              /\ {r \in raw' : r.ds = B} = {r \in raw : r.ds = B}
              /\ {m \in meta' : m.ds = B} = {m \in meta : m.ds = B}]_vars

\* A run has processed one dataset to the end, and a run has failed in
\* the processing of it, while the store holds the objects of another.
C27_Witness ==
    /\ pc = "aborted" /\ hist.failedAt \in {"merge", "state"}
    /\ wmState["contractors"].exists /\ curated["contractors"].rows # <<>>
    /\ \E B \in DatasetKeys \ {"contractors"} :
          /\ wmState[B].exists /\ curated[B].rows # <<>>
          /\ \E r \in raw : r.ds = B

\* C28: bootstrap replaces the curated table.  After a bootstrap
\* processing with a non-empty delta the stored table was not loaded, and
\* the curated table consists of rows of this run's normalized fetch
\* only, one per primary-key value of the fetch; a key of the table as
\* it was before that is not in the fetch is not in the table.
C28_BootstrapReplaces ==
    (pc = "state" /\ loc.is_bootstrap /\ loc.df_delta # <<>>) =>
        LET table == curated[loc.key].rows IN
        /\ loc.df_existing = <<>>
        /\ SeqToSet(table) \subseteq SeqToSet(loc.df_delta)
        /\ \A k \in PkVals :
              /\ Cardinality(WithPk(table, k)) <= 1
              /\ WithPk(loc.df_delta, k) # {} => WithPk(table, k) # {}
              /\ (WithPk(hist.curDs.rows, k) # {} /\ WithPk(loc.df_delta, k) = {})
                    => WithPk(table, k) = {}

\* A bootstrap processing over a stored table that held a key which the
\* fetch does not hold.
C28_Witness ==
    /\ pc = "state" /\ loc.is_bootstrap /\ loc.df_delta # <<>>
    /\ \E k \in PkVals : /\ WithPk(hist.curDs.rows, k) # {}
                          /\ WithPk(loc.df_delta, k) = {}
                          /\ WithPk(curated[loc.key].rows, k) = {}

\* C29: equal-timestamp tie.  When an existing row and a delta row of one
\* primary key carry the same update timestamp, and no row of the key is
\* newer, the row the merged table keeps for the key is a delta row.
C29_TieKeepsDelta ==
    Merged =>
        \A k \in PkVals :
            \A i \in WithPk(loc.df_existing, k) : \A j \in WithPk(loc.df_delta, k) :
                (/\ loc.df_existing[i].ts # NoTs
                 /\ loc.df_existing[i].ts = loc.df_delta[j].ts
                 /\ \A r \in SeqToSet(loc.df_existing \o loc.df_delta) :
                       r.pk = k => r.ts <= loc.df_delta[j].ts)
                    => \A f \in WithPk(loc.df_final, k) :
                           \E d \in WithPk(loc.df_delta, k) :
                               loc.df_final[f] = loc.df_delta[d]

====
